---- MODULE Spec2Model ----
(***************************************************************************)
(* Model of the HTMX tutorial server (src/main.go).                        *)
(*                                                                         *)
(* Text is modelled as a sequence of tokens.  A token is either one        *)
(* character of request data ("<", "B", ...), one HTML entity produced by  *)
(* the escaper ("&lt;"), a URL, or one literal chunk of a format string or *)
(* template.  The chunks that open an htmx action attribute (hx-get=",     *)
(* hx-post=", hx-put=") are tokens of their own, so the token that follows *)
(* one of them is the action URL embedded at that place.                   *)
(***************************************************************************)
EXTENDS Integers, Sequences, FiniteSets, TLC

VARIABLES
    isProduction,  \* main.go:36  os.Getenv("APP_ENV") == "production"
    clock,         \* wall clock in seconds (time.Now, time.Sleep)
    last,          \* the last completed exchange: request, status, body, and
                   \* whether the exchange before it had the same request
    resolved,      \* history: result of the endpoint calls made so far, per path
    submitted,     \* history: form of the latest PUT since start or reset
    wf,            \* history: position in the GET, PUT, reset workflow
    conns,         \* requests in flight, one goroutine per connection (with, as
                   \* history, the submits asleep ever since it was accepted)
    data           \* the data maps of the exercise-6 handler invocations

vars == <<isProduction, clock, last, resolved, submitted, wf, conns, data>>

(***************************************************************************)
(* Bounds                                                                  *)
(***************************************************************************)
MaxClock == 1
MaxInflight == 2

(***************************************************************************)
(* Text helpers                                                            *)
(***************************************************************************)
RECURSIVE Concat(_)
Concat(ss) == IF ss = <<>> THEN <<>> ELSE Head(ss) \o Concat(Tail(ss))

Absent == <<"(absent)">>
NoCall == "(no call)"
NoSubmit == [Name |-> Absent, Email |-> Absent]

\* The patterns registered with http.HandleFunc for the exercises.
RegisteredPaths ==
    {"/exercise1", "/exercise1/reset", "/exercise2", "/exercise2/reset",
     "/exercise3", "/exercise3/reset", "/exercise4", "/exercise4/reset",
     "/exercise5/submit", "/exercise5/reset", "/exercise6/contact/1", "/exercise6/reset"}

\* html/template's htmlReplacementTable (used by both the text and the
\* quoted-attribute escaper): one character to one entity.
htmlReplacementTable ==
    ("\"" :> "&#34;") @@ ("&" :> "&amp;") @@ ("'" :> "&#39;") @@
    ("+" :> "&#43;") @@ ("<" :> "&lt;") @@ (">" :> "&gt;")

HTMLEscape(s) ==
    [k \in 1..Len(s) |->
        IF s[k] \in DOMAIN htmlReplacementTable THEN htmlReplacementTable[s[k]] ELSE s[k]]

\* fmt.Fprintf with %s verbs that all take the same argument: the argument is
\* written as it is.  A verb directly followed by literal path text
\* ("%s/exercise1") is one token, and so is what it expands to.
VerbPairs == {<<"%s" \o sfx, sfx>> : sfx \in {""} \cup RegisteredPaths}

Verbs == {pr[1] : pr \in VerbPairs}

VerbSuffix(tok) == (CHOOSE pr \in VerbPairs : pr[1] = tok)[2]

IsVerb(tok) == tok \in Verbs

Sprintf(format, arg) ==
    Concat([k \in 1..Len(format) |->
        IF ~IsVerb(format[k]) THEN <<format[k]>>
        ELSE IF VerbSuffix(format[k]) = "" THEN arg
        ELSE IF arg = <<>> THEN <<VerbSuffix(format[k])>>
        ELSE SubSeq(arg, 1, Len(arg) - 1) \o <<arg[Len(arg)] \o VerbSuffix(format[k])>>])

\* time.Now().Format("03:04:05 PM"): 12-hour clock, zero padded.
Pad2(n) == IF n < 10 THEN "0" \o ToString(n) ELSE ToString(n)

FormatTime(t) ==
    LET h24 == (t \div 3600) % 24
        h12 == IF h24 % 12 = 0 THEN 12 ELSE h24 % 12
    IN  <<Pad2(h12) \o ":" \o Pad2((t \div 60) % 60) \o ":" \o Pad2(t % 60)
            \o (IF h24 < 12 THEN " AM" ELSE " PM")>>

(***************************************************************************)
(* Addressing                                                              *)
(***************************************************************************)
baseURL == "https://simple-htmx-go-tutorial-production.up.railway.app"

endpointAlwaysBase(path) == baseURL \o path

endpoint(path) == IF isProduction THEN baseURL \o path ELSE path

\* The logical paths the handlers resolve.
LogicalPaths == {"/exercise1", "/exercise5/submit", "/exercise6/contact/1", "/exercise6/reset"}

(***************************************************************************)
(* Templates and format strings                                            *)
(***************************************************************************)
HxGet == "hx-get=\""
HxPost == "hx-post=\""
HxPut == "hx-put=\""
ActionAttrs == {HxGet, HxPost, HxPut}

PlaceholderField ==
    ("{{.Name}}" :> "Name") @@ ("{{.Email}}" :> "Email") @@
    ("{{.ActionURL}}" :> "ActionURL") @@ ("{{.ResetURL}}" :> "ResetURL") @@
    ("{{.SubmitURL}}" :> "SubmitURL")

ex1ClickedFmt ==
    <<"<button id=\"ex1-target\" class=\"btn btn-success\" ", HxPost, "%s",
      "\" hx-swap=\"outerHTML\">Clicked!</button>">>

ex1ResetFmt ==
    <<"<button id=\"ex1-target\" class=\"btn btn-primary\" ", HxPost, "%s",
      "\" hx-swap=\"outerHTML\">Click Me</button>">>

ex2Text == <<"Hello, HTMX! This content was loaded from the server.">>

ex3Fmt == <<"Server time is: <strong>", "%s", "</strong>">>

ex3ResetClock == FormatTime(clock)

ex3ResetText == <<"Loading server time...">>

ex4Fmt == <<"You typed: <strong>", "%s", "</strong>">>

ex5SuccessFmt ==
    <<"<div class=\"alert alert-success\" id=\"ex5-response\">Thank you, ", "%s",
      "! Your message has been received.</div>">>

formResetTmpl ==
    <<"<div id=\"ex5-response\"><form ", HxPost, "{{.SubmitURL}}",
      "\" hx-target=\"#ex5-response\" hx-swap=\"outerHTML\" hx-indicator=\"#ex5-indicator\">",
      "<input type=\"text\" id=\"name\" name=\"name\" class=\"form-control\" required>",
      "<button type=\"submit\" class=\"btn btn-success\">Submit</button></form></div>">>

contactViewTmpl ==
    <<"<div id=\"contact-1\" class=\"p-2 border rounded\" hx-target=\"this\" hx-swap=\"outerHTML\">",
      "<p class=\"mb-1\"><strong>Name:</strong> ", "{{.Name}}", "</p>",
      "<p class=\"mb-2\"><strong>Email:</strong> ", "{{.Email}}", "</p>",
      "<button class=\"btn btn-primary btn-sm\" ", HxGet, "{{.ActionURL}}",
      "\">Click To Edit</button></div>">>

contactEditTmpl ==
    <<"<div id=\"contact-1\" hx-target=\"this\" hx-swap=\"outerHTML\">",
      "<form class=\"p-2 border rounded\" ", HxPut, "{{.ActionURL}}", "\">",
      "<input type=\"text\" name=\"name\" class=\"form-control form-control-sm\" value=\"",
      "{{.Name}}", "\">",
      "<input type=\"email\" name=\"email\" class=\"form-control form-control-sm\" value=\"",
      "{{.Email}}", "\">",
      "<button type=\"submit\" class=\"btn btn-success btn-sm\">Save</button>",
      "<button type=\"button\" class=\"btn btn-secondary btn-sm\" ", HxGet, "{{.ResetURL}}",
      "\" hx-target=\"#contact-1\" hx-swap=\"outerHTML\">Cancel</button></form></div>">>

\* html/template Execute over a map: every placeholder is replaced by the
\* escaped value of its key; a key the map lacks yields nothing.
Lookup(d, key) == IF key \in DOMAIN d THEN d[key] ELSE <<>>

Execute(tmpl, d) ==
    Concat([k \in 1..Len(tmpl) |->
        IF tmpl[k] \in DOMAIN PlaceholderField
        THEN HTMLEscape(Lookup(d, PlaceholderField[tmpl[k]]))
        ELSE <<tmpl[k]>>])


\* The /code/exerciseN pages: a full page whose two htmx attributes are
\* formatted with the package-level baseURL, whatever the mode.
CodeAttr(n) == IF n \in {1, 5} THEN HxPost ELSE HxGet

CodeAction(n) ==
    CASE n = 1 -> "/exercise1"
      [] n = 2 -> "/exercise2"
      [] n = 3 -> "/exercise3"
      [] n = 4 -> "/exercise4"
      [] n = 5 -> "/exercise5/submit"
      [] OTHER -> "/exercise6/contact/1"

CodeReset(n) == "/exercise" \o ToString(n) \o "/reset"

codePageFmt(n) ==
    <<"<!DOCTYPE html><html lang=\"en\">...<div class=\"container mt-5\"><button ",
      CodeAttr(n), "%s" \o CodeAction(n), "\" hx-swap=\"outerHTML\">...<button class=\"btn btn-secondary\" ",
      HxGet, "%s" \o CodeReset(n), "\">Reset</button></div></body></html>">>

(***************************************************************************)
(* Requests                                                                *)
(***************************************************************************)
Bob == <<"B", "o", "b">>
Markup == <<"<", "b", ">", "&">>
BobMail == <<"b", "@", "x">>
Quoted == <<"\"", "'", "+">>

Names == {Absent, Bob, Markup}
Emails == {Absent, BobMail, Quoted}
Inputs == {Absent, <<>>, <<"h", "i">>, Markup}
Methods == {"GET", "POST", "PUT", "PATCH", "DELETE", "OPTIONS"}

NoForm == [name |-> Absent, email |-> Absent]
\* The forms sent: every value of each field, alone and with the other.
Forms ==
    {[name |-> Absent, email |-> Absent], [name |-> Bob, email |-> BobMail],
     [name |-> Absent, email |-> BobMail], [name |-> Bob, email |-> Absent],
     [name |-> Markup, email |-> Quoted]}
BobForm == [name |-> Bob, email |-> BobMail]

Request(m, route, q, form) == [method |-> m, route |-> route, query |-> q, form |-> form]

\* r.URL.Query().Get(key): the empty string when the key is absent.
QueryGet(r) == IF r.query = Absent THEN <<>> ELSE r.query

\* r.PostFormValue(key): the body is parsed for POST, PUT and PATCH only;
\* an absent key, or no parsed body, gives the empty string.
PostFormValue(r, key) ==
    IF r.method \in {"POST", "PUT", "PATCH"} /\ r.form[key] # Absent THEN r.form[key] ELSE <<>>

JaneDoe == <<"Jane Doe">>
JaneMail == <<"jane.doe@example.com">>

(***************************************************************************)
(* Handlers: the body each one writes                                      *)
(***************************************************************************)
OK == 200

Response(body) == [status |-> OK, body |-> body]

\* corsMiddleware: a preflight request is answered at once, with no body.
corsMiddleware(r, next) == IF r.method = "OPTIONS" THEN Response(<<>>) ELSE next

exercise1 == Sprintf(ex1ClickedFmt, <<endpoint("/exercise1")>>)

exercise1Reset == Sprintf(ex1ResetFmt, <<endpoint("/exercise1")>>)

exercise3AtStartup(now) == Sprintf(ex3Fmt, FormatTime(now - clock))

exercise3(now) == Sprintf(ex3Fmt, FormatTime(now))

exercise4WrongKey(r) == Sprintf(ex4Fmt, PostFormValue(r, "name"))

exercise4(r) == Sprintf(ex4Fmt, QueryGet(r))

exercise5Success(name) == Sprintf(ex5SuccessFmt, name)

exercise5Reset == Execute(formResetTmpl, [SubmitURL |-> <<endpoint("/exercise5/submit")>>])

\* The exercise-6 handler, statement by statement.
contactDataSticky ==
    [Name |-> IF submitted = NoSubmit THEN JaneDoe ELSE submitted.Name,
     Email |-> IF submitted = NoSubmit THEN JaneMail ELSE submitted.Email,
     ActionURL |-> <<endpoint("/exercise6/contact/1")>>,
     ResetURL |-> <<endpoint("/exercise6/reset")>>]

contactDataCancelToSelf ==
    [Name |-> JaneDoe, Email |-> JaneMail,
     ActionURL |-> <<endpoint("/exercise6/contact/1")>>,
     ResetURL |-> <<endpoint("/exercise6/contact/1")>>]

contactDataCancelUnregistered ==
    [Name |-> JaneDoe, Email |-> JaneMail,
     ActionURL |-> <<endpoint("/exercise6/contact/1")>>,
     ResetURL |-> <<endpoint("/exercise6/contact/1/cancel")>>]

contactData ==
    [Name |-> JaneDoe, Email |-> JaneMail,
     ActionURL |-> <<endpoint("/exercise6/contact/1")>>,
     ResetURL |-> <<endpoint("/exercise6/reset")>>]

resetDataSticky ==
    [Name |-> IF submitted = NoSubmit THEN JaneDoe ELSE submitted.Name,
     Email |-> IF submitted = NoSubmit THEN JaneMail ELSE submitted.Email,
     ActionURL |-> <<endpoint("/exercise6/contact/1")>>]

resetDataNoActionURL == [Name |-> JaneDoe, Email |-> JaneMail]

resetData ==
    [Name |-> JaneDoe, Email |-> JaneMail,
     ActionURL |-> <<endpoint("/exercise6/contact/1")>>]

SetNameKeepDefault(d, r) ==
    IF r.form.name = Absent THEN d ELSE [d EXCEPT !.Name = PostFormValue(r, "name")]

SetName(d, r) == [d EXCEPT !.Name = PostFormValue(r, "name")]

SetEmail(d, r) == [d EXCEPT !.Email = PostFormValue(r, "email")]

contact1PostAsPut(r) ==
    IF r.method \in {"PUT", "POST"}
    THEN Execute(contactViewTmpl, SetEmail(SetName(contactData, r), r))
    ELSE Execute(contactEditTmpl, contactData)

contact1(r) ==
    IF r.method = "PUT"
    THEN Execute(contactViewTmpl, SetEmail(SetName(contactData, r), r))
    ELSE Execute(contactEditTmpl, contactData)

exercise6Reset == Execute(contactViewTmpl, resetData)

codePage(n) == Sprintf(codePageFmt(n), <<baseURL>>)

\* The handler registered for the path of a request, applied to it, at
\* clock reading now.
ServeMux(r, now) ==
    CASE r.route = "/exercise1" -> corsMiddleware(r, Response(exercise1))
      [] r.route = "/exercise1/reset" -> corsMiddleware(r, Response(exercise1Reset))
      [] r.route = "/exercise2" -> corsMiddleware(r, Response(ex2Text))
      [] r.route = "/exercise2/reset" -> corsMiddleware(r, Response(<<>>))
      [] r.route = "/exercise3" -> corsMiddleware(r, Response(exercise3(now)))
      [] r.route = "/exercise3/reset" -> corsMiddleware(r, Response(ex3ResetText))
      [] r.route = "/exercise4" -> corsMiddleware(r, Response(exercise4(r)))
      [] r.route = "/exercise4/reset" -> corsMiddleware(r, Response(<<>>))
      [] r.route = "/exercise5/submit" ->
            corsMiddleware(r, Response(exercise5Success(PostFormValue(r, "name"))))
      [] r.route = "/exercise5/reset" -> corsMiddleware(r, Response(exercise5Reset))
      [] r.route = "/exercise6/contact/1" -> corsMiddleware(r, Response(contact1(r)))
      [] r.route = "/exercise6/reset" -> corsMiddleware(r, Response(exercise6Reset))
      [] OTHER ->
            Response(codePage(CHOOSE n \in 1..6 : r.route = "/code/exercise" \o ToString(n)))

(***************************************************************************)
(* State                                                                   *)
(***************************************************************************)
SleepSeconds == 1

NoReq == Request("", "", Absent, NoForm)
NoExchange == [req |-> NoReq, status |-> 0, body |-> <<>>, repeat |-> FALSE]
NoData == [Name |-> <<>>]
Idle == [pc |-> "idle", req |-> NoReq, wake |-> 0, status |-> 0, body |-> <<>>, asleep |-> {}]

Slots == 1..MaxInflight

Init ==
    /\ isProduction \in BOOLEAN
    /\ clock = 0
    /\ last = NoExchange
    /\ resolved = [p \in LogicalPaths |-> NoCall]
    /\ submitted = NoSubmit
    /\ wf = 0
    /\ conns = [i \in Slots |-> Idle]
    /\ data = [i \in Slots |-> NoData]

Ex6Routes == {"/exercise6/contact/1", "/exercise6/reset"}

\* History of the exercise-6 workflow GET contact, PUT contact, GET reset:
\* 0 at start, 1..3 after each step made in order, 4 once the order is left;
\* 5 and 6 after the submit is followed by GET contact and then GET reset.
WfNext(r) ==
    IF r.route \notin Ex6Routes THEN wf
    ELSE IF wf = 0 /\ r.route = "/exercise6/contact/1" /\ r.method = "GET" THEN 1
    ELSE IF wf = 1 /\ r.route = "/exercise6/contact/1" /\ r.method = "PUT" THEN 2
    ELSE IF wf = 2 /\ r.route = "/exercise6/reset" /\ r.method = "GET" THEN 3
    ELSE IF wf = 2 /\ r.route = "/exercise6/contact/1" /\ r.method = "GET" THEN 5
    ELSE IF wf = 5 /\ r.route = "/exercise6/reset" /\ r.method = "GET" THEN 6
    ELSE 4

\* History of the submits: the values of the latest PUT the handler served
\* since the start or the last reset it served.
SubmittedNext(r) ==
    IF r.route = "/exercise6/contact/1" /\ r.method = "PUT"
    THEN [Name |-> PostFormValue(r, "name"), Email |-> PostFormValue(r, "email")]
    ELSE IF r.route = "/exercise6/reset" /\ r.method # "OPTIONS" THEN NoSubmit
    ELSE submitted

\* One whole exchange served with no other request in flight: the response
\* is recorded, with the endpoint calls the handler made.
Exchange(r, resp, calls) ==
    /\ \A i \in Slots : conns[i].pc = "idle"
    /\ last' = [req |-> r, status |-> resp.status, body |-> resp.body, repeat |-> (r = last.req)]
    /\ resolved' = [p \in LogicalPaths |->
                      IF p \in calls /\ r.method # "OPTIONS" THEN endpoint(p) ELSE resolved[p]]
    /\ submitted' = SubmittedNext(r)
    /\ wf' = WfNext(r)
    /\ UNCHANGED <<isProduction, conns, data>>

(***************************************************************************)
(* The handlers, one request at a time                                     *)
(***************************************************************************)
Exercise1 ==
    \E m \in {"GET", "POST"} :
        LET r == Request(m, "/exercise1", Absent, NoForm)
        IN  /\ Exchange(r, corsMiddleware(r, Response(exercise1)), {"/exercise1"})
            /\ UNCHANGED clock

Exercise1Reset ==
    \E m \in {"GET"} :
        LET r == Request(m, "/exercise1/reset", Absent, NoForm)
        IN  /\ Exchange(r, corsMiddleware(r, Response(exercise1Reset)), {"/exercise1"})
            /\ UNCHANGED clock

Exercise2 ==
    \E m \in {"GET", "OPTIONS"} :
        LET r == Request(m, "/exercise2", Absent, NoForm)
        IN  /\ Exchange(r, corsMiddleware(r, Response(ex2Text)), {})
            /\ UNCHANGED clock

Exercise2Reset ==
    \E m \in {"GET"} :
        LET r == Request(m, "/exercise2/reset", Absent, NoForm)
        IN  /\ Exchange(r, corsMiddleware(r, Response(<<>>)), {})
            /\ UNCHANGED clock

Exercise3 ==
    \E m \in {"GET"} :
        LET r == Request(m, "/exercise3", Absent, NoForm)
        IN  /\ Exchange(r, corsMiddleware(r, Response(exercise3(clock))), {})
            /\ UNCHANGED clock

Exercise3Reset ==
    \E m \in {"GET"} :
        LET r == Request(m, "/exercise3/reset", Absent, NoForm)
        IN  /\ Exchange(r, corsMiddleware(r, Response(ex3ResetText)), {})
            /\ UNCHANGED clock

Exercise4 ==
    \E m \in {"GET", "OPTIONS"}, q \in Inputs :
        LET r == Request(m, "/exercise4", q, NoForm)
        IN  /\ Exchange(r, corsMiddleware(r, Response(exercise4(r))), {})
            /\ UNCHANGED clock

Exercise4Reset ==
    \E m \in {"GET"} :
        LET r == Request(m, "/exercise4/reset", Absent, NoForm)
        IN  /\ Exchange(r, corsMiddleware(r, Response(<<>>)), {})
            /\ UNCHANGED clock

\* The submit handler sleeps, then reads the form and writes the fragment.
Exercise5Submit ==
    \E m \in {"GET", "POST", "OPTIONS"}, n \in Names :
        LET r == Request(m, "/exercise5/submit", Absent, [name |-> n, email |-> Absent])
        IN  /\ clock' = IF m = "OPTIONS" THEN clock ELSE clock + SleepSeconds
            /\ clock' <= MaxClock
            /\ Exchange(r, corsMiddleware(r, Response(exercise5Success(PostFormValue(r, "name")))), {})

Exercise5Reset ==
    \E m \in {"GET"} :
        LET r == Request(m, "/exercise5/reset", Absent, NoForm)
        IN  /\ Exchange(r, corsMiddleware(r, Response(exercise5Reset)), {"/exercise5/submit"})
            /\ UNCHANGED clock

Contact1 ==
    \E m \in Methods, f \in Forms \cup {NoForm} :
        /\ m # "PUT" => f \in {NoForm, BobForm}
        /\ m \notin {"PUT", "POST"} => f = NoForm
        /\ LET r == Request(m, "/exercise6/contact/1", Absent, f)
           IN  /\ Exchange(r, corsMiddleware(r, Response(contact1(r))),
                           {"/exercise6/contact/1", "/exercise6/reset"})
               /\ UNCHANGED clock

Exercise6Reset ==
    \E m \in {"GET", "OPTIONS"} :
        LET r == Request(m, "/exercise6/reset", Absent, NoForm)
        IN  /\ Exchange(r, corsMiddleware(r, Response(exercise6Reset)), {"/exercise6/contact/1"})
            /\ UNCHANGED clock

\* The /code pages are registered without corsMiddleware.
CodePage ==
    \E m \in {"GET", "OPTIONS"}, n \in 1..6 :
        LET r == Request(m, "/code/exercise" \o ToString(n), Absent, NoForm)
        IN  /\ Exchange(r, Response(codePage(n)), {})
            /\ UNCHANGED clock

Tick ==
    /\ clock < MaxClock
    /\ clock' = clock + 1
    /\ UNCHANGED <<isProduction, last, resolved, submitted, wf, conns, data>>

Next ==
    \/ Exercise1 \/ Exercise1Reset \/ Exercise2 \/ Exercise2Reset
    \/ Exercise3 \/ Exercise3Reset \/ Exercise4 \/ Exercise4Reset
    \/ Exercise5Submit \/ Exercise5Reset \/ Contact1 \/ Exercise6Reset
    \/ CodePage \/ Tick

Spec == Init /\ [][Next]_vars

(***************************************************************************)
(* Concurrent requests: net/http serves each connection in a goroutine of  *)
(* its own, so the statements of several handler invocations interleave.   *)
(***************************************************************************)
Payload1 == [name |-> Bob, email |-> BobMail]
Payload2 == [name |-> Markup, email |-> Quoted]

ConcRequests ==
    {Request("PUT", "/exercise6/contact/1", Absent, f) : f \in {Payload1, Payload2}}
    \cup {Request("GET", "/exercise6/contact/1", Absent, NoForm),
          Request("GET", "/exercise6/reset", Absent, NoForm),
          Request("POST", "/exercise5/submit", Absent, [name |-> Bob, email |-> Absent]),
          Request("OPTIONS", "/exercise2", Absent, NoForm)}

\* The data map of an invocation: `data := map[string]interface{}{...}` is a
\* local of the handler closure, so every invocation has a map of its own.
DataSlotShared(i) == CHOOSE s \in Slots : \A t \in Slots : s <= t

DataSlot(i) == i

\* corsMiddleware calls the handler of every request that is no preflight at
\* once: it takes no lock and waits for no other request.
AdmitSerialized(i) == \A j \in Slots \ {i} : conns[j].pc \in {"idle", "handler", "done"}

Admit(i) == TRUE

Unmonitored == UNCHANGED <<isProduction, last, resolved, submitted, wf>>

Goto(i, pc) == conns' = [conns EXCEPT ![i].pc = pc]

Finish(i, body) ==
    conns' = [conns EXCEPT ![i].pc = "done", ![i].status = OK, ![i].body = body]

\* A connection is accepted and its request passes corsMiddleware: a
\* preflight is answered at once, any other request is handed to its handler.
Accept(i) ==
    /\ conns[i].pc = "idle"
    /\ \E r \in ConcRequests :
        LET c == [Idle EXCEPT !.req = r,
                     !.asleep = {j \in Slots : conns[j].pc = "sleep"}]
            resp == corsMiddleware(r, Response(<<>>))
        IN  conns' = [conns EXCEPT ![i] =
                IF r.method = "OPTIONS"
                THEN [c EXCEPT !.pc = "done", !.status = resp.status, !.body = resp.body]
                ELSE [c EXCEPT !.pc = "handler"]]
    /\ UNCHANGED <<clock, data>> /\ Unmonitored

ContactBegin(i) ==
    /\ conns[i].pc = "handler" /\ conns[i].req.route = "/exercise6/contact/1"
    /\ Admit(i)
    /\ data' = [data EXCEPT ![DataSlot(i)] = contactData]
    /\ Goto(i, IF conns[i].req.method = "PUT" THEN "setName" ELSE "renderEdit")
    /\ UNCHANGED clock /\ Unmonitored

ContactSetName(i) ==
    /\ conns[i].pc = "setName"
    /\ data' = [data EXCEPT ![DataSlot(i)] = SetName(@, conns[i].req)]
    /\ Goto(i, "setEmail")
    /\ UNCHANGED clock /\ Unmonitored

ContactSetEmail(i) ==
    /\ conns[i].pc = "setEmail"
    /\ data' = [data EXCEPT ![DataSlot(i)] = SetEmail(@, conns[i].req)]
    /\ Goto(i, "renderView")
    /\ UNCHANGED clock /\ Unmonitored

ResetBegin(i) ==
    /\ conns[i].pc = "handler" /\ conns[i].req.route = "/exercise6/reset"
    /\ Admit(i)
    /\ data' = [data EXCEPT ![DataSlot(i)] = resetData]
    /\ Goto(i, "renderView")
    /\ UNCHANGED clock /\ Unmonitored

RenderView(i) ==
    /\ conns[i].pc = "renderView"
    /\ Finish(i, Execute(contactViewTmpl, data[DataSlot(i)]))
    /\ UNCHANGED <<clock, data>> /\ Unmonitored

RenderEdit(i) ==
    /\ conns[i].pc = "renderEdit"
    /\ Finish(i, Execute(contactEditTmpl, data[DataSlot(i)]))
    /\ UNCHANGED <<clock, data>> /\ Unmonitored

\* time.Sleep(1 * time.Second): the goroutine of this request is parked.
SubmitSleep(i) ==
    /\ conns[i].pc = "handler" /\ conns[i].req.route = "/exercise5/submit"
    /\ Admit(i)
    /\ clock + SleepSeconds <= MaxClock
    /\ conns' = [conns EXCEPT ![i].pc = "sleep", ![i].wake = clock + SleepSeconds]
    /\ UNCHANGED <<clock, data>> /\ Unmonitored

\* The handler goes on without waiting for the sleep to end.
SubmitWakeEarly(i) ==
    /\ conns[i].pc = "sleep"
    /\ conns' = [k \in Slots |->
                   IF k = i
                   THEN [conns[i] EXCEPT !.pc = "done", !.status = OK,
                            !.body = exercise5Success(PostFormValue(conns[i].req, "name"))]
                   ELSE [conns[k] EXCEPT !.asleep = @ \ {i}]]
    /\ UNCHANGED <<clock, data>> /\ Unmonitored

\* The sleep is over: the form is read and the fragment written.  (History:
\* the request is no longer among the sleepers the others were accepted during.)
SubmitWake(i) ==
    /\ conns[i].pc = "sleep" /\ clock >= conns[i].wake
    /\ conns' = [k \in Slots |->
                   IF k = i
                   THEN [conns[i] EXCEPT !.pc = "done", !.status = OK,
                            !.body = exercise5Success(PostFormValue(conns[i].req, "name"))]
                   ELSE [conns[k] EXCEPT !.asleep = @ \ {i}]]
    /\ UNCHANGED <<clock, data>> /\ Unmonitored

\* The response is sent and the invocation's locals are gone.
Close(i) ==
    /\ conns[i].pc = "done"
    /\ conns' = [conns EXCEPT ![i] = Idle]
    /\ data' = [data EXCEPT ![DataSlot(i)] = NoData]
    /\ UNCHANGED clock /\ Unmonitored

Step(i) ==
    \/ ContactBegin(i) \/ ContactSetName(i) \/ ContactSetEmail(i)
    \/ ResetBegin(i) \/ RenderView(i) \/ RenderEdit(i)
    \/ SubmitSleep(i) \/ SubmitWake(i)

NextConc ==
    \/ \E i \in Slots : Accept(i)
    \/ \E i \in Slots : Step(i)
    \/ \E i \in Slots : Close(i)
    \/ Tick

SpecConc == Init /\ [][NextConc]_vars

\* Time passes, and the runtime resumes a goroutine whose sleep has ended.
Fairness == WF_vars(Tick) /\ \A i \in Slots : WF_vars(SubmitWake(i))

SpecConcFair == SpecConc /\ Fairness

(***************************************************************************)
(* Reading a fragment back, as the page that receives it does              *)
(***************************************************************************)
IndexOf(s, tok) ==
    IF \E k \in 1..Len(s) : s[k] = tok
    THEN CHOOSE k \in 1..Len(s) : s[k] = tok /\ \A h \in 1..(k - 1) : s[h] # tok
    ELSE 0

NotFound == <<"(not found)">>

\* The tokens between the first `open` and the next `close`.
Between(s, open, close) ==
    LET a == IndexOf(s, open)
        rest == SubSeq(s, a + 1, Len(s))
        b == IndexOf(rest, close)
    IN  IF a = 0 \/ b = 0 THEN NotFound ELSE SubSeq(rest, 1, b - 1)

\* Characters that are markup when they reach the page unescaped.
MarkupChars == {"<", ">", "&", "\"", "'"}

Inert(s) == \A k \in 1..Len(s) : s[k] \notin MarkupChars

\* What the page displays for escaped text: every entity read as its character.
EntityChar ==
    ("&#34;" :> "\"") @@ ("&amp;" :> "&") @@ ("&#39;" :> "'") @@
    ("&#43;" :> "+") @@ ("&lt;" :> "<") @@ ("&gt;" :> ">")

Unescape(s) == [k \in 1..Len(s) |-> IF s[k] \in DOMAIN EntityChar THEN EntityChar[s[k]] ELSE s[k]]

\* A value is shown exactly when it arrives inert and reads back as the value.
Shows(part, value) == Inert(part) /\ Unescape(part) = value

IsDisplay(body) == body # <<>> /\ body[1] = contactViewTmpl[1]
IsEdit(body) == body # <<>> /\ body[1] = contactEditTmpl[1]
IsSuccess(body) == body # <<>> /\ body[1] = ex5SuccessFmt[1]

DisplayName(body) == Between(body, contactViewTmpl[2], contactViewTmpl[4])
DisplayEmail(body) == Between(body, contactViewTmpl[5], contactViewTmpl[7])
EditName(body) == Between(body, contactEditTmpl[6], contactEditTmpl[8])
EditEmail(body) == Between(body, contactEditTmpl[9], contactEditTmpl[11])
EchoText(body) == Between(body, ex4Fmt[1], ex4Fmt[3])
SuccessName(body) == Between(body, ex5SuccessFmt[1], ex5SuccessFmt[3])

\* The action URLs a body embeds: the token after each hx-get, hx-post, hx-put.
ActionURLs(body) == {body[k + 1] : k \in {h \in 1..(Len(body) - 1) : body[h] \in ActionAttrs}}

IsContactGet(x) == x.req.route = "/exercise6/contact/1" /\ x.req.method = "GET"
IsContactPut(x) == x.req.route = "/exercise6/contact/1" /\ x.req.method = "PUT"
IsReset6(x) == x.req.route = "/exercise6/reset" /\ x.req.method = "GET"

(***************************************************************************)
(* Claims                                                                  *)
(***************************************************************************)

\* C1: every endpoint call returns the path itself in LOCAL mode and the base
\* origin followed by the path in PUBLIC mode, and a later call with the same
\* path returns the string the earlier call returned.
C1_EndpointResolves ==
    [][\A p \in LogicalPaths :
          resolved'[p] # NoCall =>
              /\ resolved'[p] = (IF isProduction THEN baseURL \o p ELSE p)
              /\ resolved[p] # NoCall => resolved'[p] = resolved[p]]_vars

C1_Witness ==
    /\ \A p \in LogicalPaths : resolved[p] # NoCall
    /\ last.req.route = "/exercise6/reset" /\ last.req.method = "GET"

\* C2: from the start, GET contact returns the EDIT fragment holding
\* "Jane Doe"; the PUT that follows returns the DISPLAY fragment showing the
\* submitted name and email; the reset that follows returns the DISPLAY
\* fragment showing the defaults.
C2_Workflow ==
    /\ (wf = 1 /\ IsContactGet(last)) =>
          IsEdit(last.body) /\ Shows(EditName(last.body), JaneDoe)
    /\ (wf = 2 /\ IsContactPut(last)) =>
          /\ IsDisplay(last.body)
          /\ Shows(DisplayName(last.body), PostFormValue(last.req, "name"))
          /\ Shows(DisplayEmail(last.body), PostFormValue(last.req, "email"))
    /\ (wf = 3 /\ IsReset6(last)) =>
          /\ IsDisplay(last.body)
          /\ Shows(DisplayName(last.body), JaneDoe)
          /\ Shows(DisplayEmail(last.body), JaneMail)

C2_Witness == wf = 3 /\ IsReset6(last)

\* C3 as stated: GET contact returns the EDIT fragment holding the values of
\* the latest submit since the start or the last reset, the defaults if none.
C3_Original ==
    IsContactGet(last) =>
        /\ IsEdit(last.body)
        /\ Shows(EditName(last.body), IF submitted = NoSubmit THEN JaneDoe ELSE submitted.Name)
        /\ Shows(EditEmail(last.body), IF submitted = NoSubmit THEN JaneMail ELSE submitted.Email)

\* C3 amended: GET contact returns the EDIT fragment holding the defaults,
\* whatever was submitted before it.
C3_EditShowsDefaults ==
    IsContactGet(last) =>
        /\ IsEdit(last.body)
        /\ Shows(EditName(last.body), JaneDoe)
        /\ Shows(EditEmail(last.body), JaneMail)

C3_Witness ==
    /\ IsContactGet(last)
    /\ submitted # NoSubmit /\ submitted.Name = Bob /\ submitted.Email = BobMail

\* C4: the fragment of GET /exercise4 holds the user input in escaped form
\* only: no markup character of the input reaches the body unescaped.
C4_EchoEscaped ==
    (last.req.route = "/exercise4" /\ last.req.method = "GET") =>
        Shows(EchoText(last.body), QueryGet(last.req))

\* C5: the name in the success fragment of POST /exercise5/submit and the name
\* and email in the DISPLAY fragment of PUT contact are escaped.
C5_FormValuesEscaped ==
    /\ (last.req.route = "/exercise5/submit" /\ last.req.method = "POST") =>
          Shows(SuccessName(last.body), PostFormValue(last.req, "name"))
    /\ IsContactPut(last) =>
          /\ Shows(DisplayName(last.body), PostFormValue(last.req, "name"))
          /\ Shows(DisplayEmail(last.body), PostFormValue(last.req, "email"))

\* The name and email a finished exercise-6 response presents.
ShownPair(body) ==
    IF IsDisplay(body)
    THEN <<Unescape(DisplayName(body)), Unescape(DisplayEmail(body))>>
    ELSE <<Unescape(EditName(body)), Unescape(EditEmail(body))>>

\* C6: with submits of two different payloads, resets and edit requests
\* interleaved, every exercise-6 response presents the pair of one payload or
\* the default pair, never the name of one with the email of another.
C6_NoHybrid ==
    \A i \in Slots :
        (conns[i].pc = "done" /\ conns[i].req.route \in Ex6Routes) =>
            ShownPair(conns[i].body) \in
                {<<Payload1.name, Payload1.email>>, <<Payload2.name, Payload2.email>>,
                 <<JaneDoe, JaneMail>>}

C6_Witness ==
    \E i, j \in Slots :
        /\ conns[i].pc = "done" /\ conns[i].req.method = "PUT" /\ conns[i].req.form = Payload1
        /\ conns[j].pc = "setEmail" /\ conns[j].req.form = Payload2

ResetRoutes ==
    {"/exercise1/reset", "/exercise2/reset", "/exercise3/reset",
     "/exercise4/reset", "/exercise5/reset", "/exercise6/reset"}

\* C7: a reset invoked again right after itself, after any requests before,
\* returns the fragment it returned the time before.
C7_ResetIdempotent ==
    [][(last.req.route \in ResetRoutes /\ last.req.method = "GET" /\ last'.req = last.req)
          => last'.body = last.body]_vars

C7_Witness ==
    /\ last.repeat /\ last.req.route = "/exercise6/reset" /\ last.req.method = "GET"
    /\ clock > 0

\* C8: every action URL a response embeds is the bare registered path in LOCAL
\* mode and the base origin followed by a registered path in PUBLIC mode.
C8_ActionURLsResolved ==
    \A u \in ActionURLs(last.body) :
        IF isProduction
        THEN u \in {baseURL \o p : p \in RegisteredPaths}
        ELSE u \in RegisteredPaths

\* The statement of a slot in flight can be taken now.
CanProceed(i) ==
    CASE conns[i].pc = "idle" -> ENABLED Accept(i)
      [] conns[i].pc = "done" -> ENABLED Close(i)
      [] conns[i].pc = "sleep" -> TRUE
      [] conns[i].pc = "handler" /\ conns[i].req.route = "/exercise5/submit" ->
            clock + SleepSeconds <= MaxClock => ENABLED Step(i)
      [] OTHER -> ENABLED Step(i)

\* C9: while a submit is inside its delay it owns no data map, and every other
\* connection can be accepted, take its next statement or be closed.
C9_SleepSuspendsOnlyItself ==
    \A j \in Slots :
        conns[j].pc = "sleep" =>
            /\ data[DataSlot(j)] = NoData
            /\ \A i \in Slots \ {j} : CanProceed(i)

C9_Witness ==
    \E i, j \in Slots :
        /\ i # j
        /\ conns[j].pc = "sleep" /\ j \in conns[i].asleep
        /\ conns[i].pc = "done" /\ conns[i].req.route = "/exercise6/contact/1"

\* C10: a submit that lacks a field is served as usual, and the absent field
\* is the empty string: PUT contact shows it empty in the DISPLAY fragment,
\* POST submit inserts nothing for it in the success fragment.
C10_AbsentFieldIsEmpty ==
    /\ IsContactPut(last) =>
          /\ last.status = OK /\ IsDisplay(last.body)
          /\ last.req.form.name = Absent => DisplayName(last.body) = <<>>
          /\ last.req.form.email = Absent => DisplayEmail(last.body) = <<>>
    /\ (last.req.route = "/exercise5/submit" /\ last.req.method = "POST") =>
          /\ last.status = OK /\ IsSuccess(last.body)
          /\ last.req.form.name = Absent => SuccessName(last.body) = <<>>

C10_Witness ==
    /\ IsContactPut(last) /\ last.req.form.name = Absent /\ last.req.form.email = BobMail
    /\ submitted = [Name |-> <<>>, Email |-> BobMail]

\* The methods the exercise-6 handler is reached with and has no branch for.
OtherMethods == {"POST", "PATCH", "DELETE"}

\* C11 as stated: every request to /exercise6/contact/1 whose method is not
\* PUT, a preflight OPTIONS included, is answered with the EDIT fragment of a
\* GET.
C11_Original ==
    (last.req.route = "/exercise6/contact/1" /\ last.req.method # "PUT") =>
        /\ last.status = OK /\ IsEdit(last.body)
        /\ Shows(EditName(last.body), JaneDoe) /\ Shows(EditEmail(last.body), JaneMail)

\* C11: a POST, PATCH or DELETE to /exercise6/contact/1 is served like a GET:
\* status 200, the EDIT fragment with the defaults, the fragment a GET served
\* just before returned, and the form values it carries are recorded nowhere;
\* a preflight OPTIONS is answered by corsMiddleware with 200 and no body.
C11_FallsThroughToEdit ==
    [][((last'.req.route = "/exercise6/contact/1" /\ last'.req.method \in OtherMethods) =>
            /\ last'.status = OK /\ IsEdit(last'.body)
            /\ Shows(EditName(last'.body), JaneDoe)
            /\ Shows(EditEmail(last'.body), JaneMail)
            /\ (IsContactGet(last) => last'.body = last.body)
            /\ (last' # last => submitted' = submitted))
       /\ ((last'.req.route = "/exercise6/contact/1" /\ last'.req.method = "OPTIONS") =>
            /\ last'.status = OK /\ last'.body = <<>>)]_vars

C11_Witness ==
    /\ last.req.route = "/exercise6/contact/1" /\ last.req.method = "POST"
    /\ last.req.form = BobForm /\ IsEdit(last.body)
    /\ submitted = [Name |-> Markup, Email |-> Quoted]

\* The request the Cancel button of an EDIT fragment makes: a GET to the URL
\* of the button's hx-get attribute, the only hx-get of the fragment.
CancelURL(body) == body[IndexOf(body, HxGet) + 1]

PathOf(url) ==
    IF \E p \in RegisteredPaths : endpoint(p) = url
    THEN CHOOSE p \in RegisteredPaths : endpoint(p) = url
    ELSE "(unregistered)"

IsCancel(x, r) ==
    /\ IsEdit(x.body)
    /\ r = Request("GET", PathOf(CancelURL(x.body)), Absent, NoForm)

\* C12 as stated: the request of the Cancel button, made on an EDIT fragment
\* entered after an accepted submit of (N, E), returns DISPLAY showing (N, E).
C12_Original ==
    [][(IsCancel(last, last'.req) /\ submitted # NoSubmit) =>
          /\ IsDisplay(last'.body)
          /\ Shows(DisplayName(last'.body), submitted.Name)
          /\ Shows(DisplayEmail(last'.body), submitted.Email)]_vars

\* C12: the request of the Cancel button of an EDIT fragment is GET
\* /exercise6/reset, and it returns DISPLAY showing the defaults, whatever
\* was submitted before EDIT was entered.
C12_CancelShowsDefaults ==
    [][IsCancel(last, last'.req) =>
          /\ IsReset6(last') /\ last'.status = OK /\ IsDisplay(last'.body)
          /\ Shows(DisplayName(last'.body), JaneDoe)
          /\ Shows(DisplayEmail(last'.body), JaneMail)]_vars

C12_Witness == wf = 6 /\ IsReset6(last) /\ IsDisplay(last.body)

\* The text has none of the characters HTML gives a meaning to.
PlainText(t) == \A k \in 1..Len(t) : t[k] \notin DOMAIN htmlReplacementTable

\* C13: GET /exercise4 with a user-input of plain text returns exactly
\* 'You typed: <strong>', the text, '</strong>'; with no user-input parameter
\* the text echoed is the empty string.
C13_EchoesPlainText ==
    (last.req.route = "/exercise4" /\ last.req.method = "GET") =>
        LET t == IF last.req.query = Absent THEN <<>> ELSE last.req.query
        IN  PlainText(t) =>
              /\ last.status = OK
              /\ last.body = <<"You typed: <strong>">> \o t \o <<"</strong>">>

C13_Witness ==
    /\ last.req.route = "/exercise4" /\ last.req.method = "GET"
    /\ last.req.query = <<"h", "i">>
    /\ EchoText(last.body) = <<"h", "i">>

\* A statement of the invocation in slot i is taken in this step.
Runs(i) == conns[i].pc # "idle" /\ conns'[i].pc # conns[i].pc

\* C14: a GET /exercise6/contact/1 writes nothing but the data map of its own
\* invocation: each of its statements leaves every other connection, every
\* other data map, the addressing mode and the clock as they were, and once
\* it is closed its slot and its map are as before it was accepted, so every
\* later request is served from the state it would have found without it.
C14_GetMutatesNothing ==
    [][\A i \in Slots :
          (IsContactGet(conns[i]) /\ Runs(i)) =>
              /\ \A k \in Slots \ {i} :
                    /\ conns'[k] = conns[k]
                    /\ data'[DataSlot(k)] = data[DataSlot(k)]
              /\ conns'[i].pc = "idle" => (conns'[i] = Idle /\ data'[DataSlot(i)] = NoData)
              /\ UNCHANGED <<isProduction, clock>>]_vars

C14_Witness ==
    \E i, k \in Slots :
        /\ i # k
        /\ IsContactGet(conns[i]) /\ conns[i].pc = "done" /\ IsEdit(conns[i].body)
        /\ IsContactPut(conns[k]) /\ conns[k].pc = "renderView"
        /\ data[DataSlot(k)].Name = Markup /\ data[DataSlot(k)].Email = Quoted

\* C15: whatever submits, resets and edit requests run at the same time, the
\* response of each PUT /exercise6/contact/1 is the DISPLAY fragment showing
\* exactly the name and the email of that request's own form.
C15_OwnWriteShown ==
    \A i \in Slots :
        (conns[i].pc = "done" /\ IsContactPut(conns[i])) =>
            /\ conns[i].status = OK /\ IsDisplay(conns[i].body)
            /\ Shows(DisplayName(conns[i].body), conns[i].req.form.name)
            /\ Shows(DisplayEmail(conns[i].body), conns[i].req.form.email)

C15_Witness ==
    \E i, k \in Slots :
        /\ conns[i].pc = "done" /\ IsContactPut(conns[i]) /\ conns[i].req.form = Payload1
        /\ conns[k].pc = "done" /\ IsContactPut(conns[k]) /\ conns[k].req.form = Payload2

TimeText(body) == Between(body, ex3Fmt[1], ex3Fmt[3])

\* C16: after any requests, in any order, a GET /exercise3 returns the clock
\* of the time it is served and a GET /exercise4 the user-input it was sent,
\* and GET /exercise2, /exercise2/reset, /exercise3/reset and /exercise4/reset
\* return one fixed text each.
C16_PollsKeepNoState ==
    [][(last' # last /\ last'.req.method = "GET") =>
          /\ last'.status = OK
          /\ last'.req.route = "/exercise3" =>
                last'.body = <<"Server time is: <strong>">> \o FormatTime(clock') \o <<"</strong>">>
          /\ last'.req.route = "/exercise4" =>
                EchoText(last'.body) =
                    (IF last'.req.query = Absent THEN <<>> ELSE last'.req.query)
          /\ last'.req.route = "/exercise2" =>
                last'.body = <<"Hello, HTMX! This content was loaded from the server.">>
          /\ last'.req.route = "/exercise3/reset" => last'.body = <<"Loading server time...">>
          /\ last'.req.route \in {"/exercise2/reset", "/exercise4/reset"} =>
                last'.body = <<>>]_vars

C16_Witness ==
    /\ last.req.route = "/exercise3" /\ last.req.method = "GET" /\ last.repeat
    /\ clock > 0 /\ TimeText(last.body) = FormatTime(clock)

IsSubmit(x) == x.req.route = "/exercise5/submit" /\ x.req.method = "POST"

SuccessCount(body) == Cardinality({k \in 1..Len(body) : body[k] = ex5SuccessFmt[1]})

\* C17: a POST /exercise5/submit has written no status and no body while it
\* is in its handler before or inside the delay; its response is complete only
\* at or after the time the delay ends, is status 200 with exactly one success
\* fragment holding the name of its form; and a request inside the delay
\* always comes to that response.
C17_DelayedThenServed ==
    /\ [](\A i \in Slots :
            IsSubmit(conns[i]) =>
              /\ conns[i].pc \in {"handler", "sleep"} =>
                    (conns[i].status = 0 /\ conns[i].body = <<>>)
              /\ conns[i].pc = "sleep" => conns[i].wake >= SleepSeconds
              /\ conns[i].pc = "done" =>
                    /\ clock >= conns[i].wake /\ conns[i].wake >= SleepSeconds
                    /\ conns[i].status = OK
                    /\ IsSuccess(conns[i].body) /\ SuccessCount(conns[i].body) = 1
                    /\ SuccessName(conns[i].body) = PostFormValue(conns[i].req, "name"))
    /\ \A i \in Slots :
          (IsSubmit(conns[i]) /\ conns[i].pc = "sleep")
              ~> (conns[i].pc = "done" /\ IsSuccess(conns[i].body))

C17_Witness ==
    \E i, k \in Slots :
        /\ IsSubmit(conns[i]) /\ conns[i].pc = "done" /\ IsSuccess(conns[i].body)
        /\ clock >= SleepSeconds
        /\ IsSubmit(conns[k]) /\ conns[k].pc = "handler"

\* The fields a template refers to.
Referenced(tmpl) ==
    {PlaceholderField[tmpl[k]] : k \in {h \in 1..Len(tmpl) : tmpl[h] \in DOMAIN PlaceholderField}}

TemplateRoutes == {"/exercise5/reset", "/exercise6/contact/1", "/exercise6/reset"}

\* C18: in every fragment rendered from a template (the exercise-5 form,
\* DISPLAY from a PUT, DISPLAY from reset, EDIT) no placeholder is left, every
\* action attribute holds a resolved URL, and the data of the handler has each
\* field its template refers to.
C18_NoUnresolvedPlaceholder ==
    (last.req.route \in TemplateRoutes /\ last.req.method # "OPTIONS") =>
        /\ last.body # <<>>
        /\ \A k \in 1..Len(last.body) :
              /\ last.body[k] \notin DOMAIN PlaceholderField
              /\ last.body[k] \in ActionAttrs =>
                    /\ k < Len(last.body)
                    /\ last.body[k + 1] \in {endpoint(p) : p \in RegisteredPaths}
        /\ IsDisplay(last.body) =>
              Referenced(contactViewTmpl) \subseteq
                  DOMAIN (IF IsReset6(last) THEN resetData ELSE contactData)
        /\ IsEdit(last.body) => Referenced(contactEditTmpl) \subseteq DOMAIN contactData

C18_Witness ==
    /\ IsReset6(last) /\ IsDisplay(last.body) /\ isProduction
    /\ ActionURLs(last.body) = {baseURL \o "/exercise6/contact/1"}

\* C19: the response of every exchange is the one its handler gives for the
\* request, the addressing mode and the clock of that exchange, whatever was
\* served before; a GET /exercise6/contact/1 renders EDIT with the defaults
\* and a GET /exercise6/reset renders DISPLAY with the defaults, always.
C19_NoStateAcrossRequests ==
    [][last' # last =>
          /\ [status |-> last'.status, body |-> last'.body] = ServeMux(last'.req, clock')
          /\ IsContactGet(last') =>
                /\ IsEdit(last'.body)
                /\ EditName(last'.body) = JaneDoe /\ EditEmail(last'.body) = JaneMail
          /\ IsReset6(last') =>
                /\ IsDisplay(last'.body)
                /\ DisplayName(last'.body) = JaneDoe /\ DisplayEmail(last'.body) = JaneMail]_vars

C19_Witness ==
    /\ IsContactGet(last) /\ last.repeat
    /\ submitted = [Name |-> Markup, Email |-> Quoted]
    /\ EditName(last.body) = JaneDoe

\* The requests a fragment offers: the method of each htmx attribute with the
\* URL it holds.
MethodOf(attr) == IF attr = HxPost THEN "POST" ELSE IF attr = HxPut THEN "PUT" ELSE "GET"

Offers(body) ==
    {<<MethodOf(body[k]), body[k + 1]>> :
        k \in {h \in 1..(Len(body) - 1) : body[h] \in ActionAttrs}}

\* C20: in LOCAL mode every request a fragment offers (the exercise-1
\* buttons, the exercise-5 form, exercise-6 DISPLAY and EDIT) goes to a
\* registered path and is answered with status 200 and a fragment; DISPLAY
\* offers the edit request, EDIT offers the reset request, and the reset
\* request is answered with DISPLAY showing the defaults.
C20_FragmentsClosed ==
    (~isProduction /\ last.req.route \in RegisteredPaths) =>
        /\ \A o \in Offers(last.body) :
              /\ o[2] \in RegisteredPaths
              /\ LET resp == ServeMux(Request(o[1], o[2], Absent, NoForm), clock)
                 IN  resp.status = OK /\ resp.body # <<>>
        /\ IsDisplay(last.body) => <<"GET", "/exercise6/contact/1">> \in Offers(last.body)
        /\ IsEdit(last.body) =>
              /\ <<"PUT", "/exercise6/contact/1">> \in Offers(last.body)
              /\ <<"GET", "/exercise6/reset">> \in Offers(last.body)
              /\ LET resp == ServeMux(Request("GET", "/exercise6/reset", Absent, NoForm), clock)
                 IN  /\ IsDisplay(resp.body)
                     /\ DisplayName(resp.body) = JaneDoe /\ DisplayEmail(resp.body) = JaneMail

C20_Witness == ~isProduction /\ wf = 5 /\ IsEdit(last.body) /\ Cardinality(Offers(last.body)) = 2

====
